---- MODULE Spec2Model ----
(***************************************************************************)
(* passphrase2pgp: the UserID type of the openpgp package (Packet, Load,   *)
(* SignType, Subpackets, SignData) at the byte level, and the pipeline of  *)
(* main (parse, passphrase, kdf, key set-up or load, output assembly,      *)
(* armor, write) as a step machine.                                        *)
(***************************************************************************)
EXTENDS Integers, Sequences, FiniteSets, TLC

VARIABLES
    u,          \* UserID the operations are called on: [ID, EnableMDC]
    r,          \* UserID that receives Load
    wire,       \* bytes last produced by u.Packet()
    res,        \* the last UserID call: [op, ret, err, stream, before]
    pc,         \* position of main
    options,    \* *options returned by parse
    passphrase, \* passphrase read by main
    key,        \* var key SignKey
    subkey,     \* var subkey EncryptKey
    userid,     \* var userid UserID
    keyfile,    \* content of the file opened for -l
    stdin,      \* what key.Sign read from standard input
    output,     \* var output []byte, as a sequence of packets
    stdout,     \* what has been written to standard output
    stderr,     \* what has been written to standard error
    exitcode,   \* exit status, read once pc is "exit"
    cause,      \* where the run ended: "", "help", "done" or the failing step
    used,       \* the keys whose packet, KeyID, signature or binding was computed
    zeroKey,    \* what the build does with a never-initialized EncryptKey
    requested,  \* the creation date the command line asked for
    run,        \* 1 in the first run, 2 in the second
    first       \* what the first run read and wrote, once the second started

uidvars == <<u, r, wire, res>>

mainvars == <<pc, options, passphrase, key, subkey, userid, keyfile, stdin, output,
              stdout, stderr, exitcode, cause, used, zeroKey, requested, run, first>>

vars == <<u, r, wire, res, pc, options, passphrase, key, subkey, userid, keyfile,
          stdin, output, stdout, stderr, exitcode, cause, used, zeroKey, requested, run, first>>

(***************************************************************************)
(* Bounds of the model.                                                    *)
(***************************************************************************)
\* identities of every length 0..MaxShortLen over Alphabet
MaxShortLen == 2
\* longest identity is ByteRange + MaxOver bytes
MaxOver == 1

(***************************************************************************)
(* Bytes.                                                                  *)
(***************************************************************************)
\* Go's byte(x) conversion keeps x mod 256
ByteRange == 256
\* 0xc0, the header bits of a packet
HeaderBits == 192
\* packet tag of a User ID packet
TagUserID == 13
\* first byte of the user-ID certification preimage, 0xb4
SignDataTag == 180

Byte(n) == n % ByteRange

\* 0xc0 | tag, for a tag below 64 (no bit in common with 0xc0)
Header(tag) == HeaderBits + tag

Alphabet == {65, 66}

\* n bytes 'A', the last one 'B'
Filled(n) == [i \in 1..n |-> IF i = n THEN 66 ELSE 65]

ShortIDs == UNION {[1..n -> Alphabet] : n \in 0..MaxShortLen}

LongIDs == {Filled(n) : n \in (ByteRange - 2)..(ByteRange + MaxOver)}

IDs == ShortIDs \cup LongIDs

\* UserID{}: Go's zero value
ZeroUserID == [ID |-> <<>>, EnableMDC |-> FALSE]

UserIDs == [ID : IDs, EnableMDC : BOOLEAN]

Receivers == {ZeroUserID, [ID |-> <<66>>, EnableMDC |-> TRUE]}

(***************************************************************************)
(* UserID methods.                                                         *)
(***************************************************************************)
\* a plausible slip: the length byte counts the header too
PacketLenOff(x) == <<Header(TagUserID), Byte(Len(x.ID) + 2)>> \o x.ID

\* func (u *UserID) Packet() []byte
Packet(x) == <<Header(TagUserID), Byte(Len(x.ID))>> \o x.ID

\* readPacket: the first packet of the stream, header included
readPacket(s) ==
    IF Len(s) < 2 THEN [err |-> TRUE, packet |-> <<>>]
    ELSE IF s[1] \div 64 # 3 THEN [err |-> TRUE, packet |-> <<>>]
    ELSE IF Len(s) < 2 + s[2] THEN [err |-> TRUE, packet |-> <<>>]
    ELSE [err |-> FALSE, packet |-> SubSeq(s, 1, 2 + s[2])]

\* a plausible slip: the identity is stored before the tag is checked
LoadEarlyStore(x, s) ==
    LET p == readPacket(s) IN
    IF p.err THEN [err |-> TRUE, u |-> x]
    ELSE IF p.packet[1] # Header(TagUserID)
         THEN [err |-> TRUE, u |-> [x EXCEPT !.ID = SubSeq(p.packet, 3, Len(p.packet))]]
    ELSE [err |-> FALSE, u |-> [x EXCEPT !.ID = SubSeq(p.packet, 3, Len(p.packet))]]

\* func (u *UserID) Load(r io.Reader) (err error)
Load(x, s) ==
    LET p == readPacket(s) IN
    IF p.err THEN [err |-> TRUE, u |-> x]
    ELSE IF p.packet[1] # Header(TagUserID) THEN [err |-> TRUE, u |-> x]
    ELSE [err |-> FALSE, u |-> [x EXCEPT !.ID = SubSeq(p.packet, 3, Len(p.packet))]]

\* func (u *UserID) SignType() byte
SignType(x) == 19

AllSubpackets == << [Type |-> 27, Data |-> <<3>>], [Type |-> 30, Data |-> <<1>>] >>

\* a plausible slip: the branches swapped
SubpacketsSwapped(x) ==
    IF x.EnableMDC THEN SubSeq(AllSubpackets, 1, 1) ELSE AllSubpackets

\* func (u *UserID) Subpackets() []Subpacket
Subpackets(x) ==
    IF x.EnableMDC THEN AllSubpackets ELSE SubSeq(AllSubpackets, 1, 1)

\* func (u *UserID) SignData() []byte
SignData(x) == <<SignDataTag, 0, 0, 0>> \o Tail(Packet(x))

(***************************************************************************)
(* main: command line, environment and parse.                              *)
(***************************************************************************)
\* const kdfTime
kdfTime == 8
\* const kdfMemory
kdfMemory == 1024 * 1024

NoString == <<>>

\* values of -u
UidArgs == {NoString, <<65>>, <<66>>}

\* values of -l and -i: the option absent, or a file name
FileArgs == {NoString, <<102>>}

\* values of -t, and what time.Now().Unix() may return
TimeArgs == {0, 1}
Clock == {1, 2}

\* -r: 0..MaxRepeat
MaxRepeat == 1

\* EMAIL and REALNAME: both unset, or both set
Environments ==
    { [EMAIL |-> NoString, REALNAME |-> NoString],
      [EMAIL |-> <<69>>, REALNAME |-> NoString],
      [EMAIL |-> <<69>>, REALNAME |-> <<82>>] }

\* the flag set of parse, after flag.Parse(); -K is never read and keeps its default
CommandLines ==
    [ sign : BOOLEAN, keygen : {TRUE}, armor : BOOLEAN, created : TimeArgs,
      fingerprint : BOOLEAN, help : BOOLEAN, input : FileArgs, load : FileArgs,
      now : BOOLEAN, paranoid : BOOLEAN, public : BOOLEAN, repeat : 0..MaxRepeat,
      subkey : BOOLEAN, uid : UidArgs ]

\* options{} before flag.Parse()
ZeroOptions ==
    [ sign |-> FALSE, keygen |-> FALSE, armor |-> FALSE, created |-> 0,
      fingerprint |-> FALSE, help |-> FALSE, input |-> NoString, load |-> NoString,
      now |-> FALSE, paranoid |-> FALSE, public |-> FALSE, repeat |-> 0,
      subkey |-> FALSE, uid |-> NoString ]

\* fmt.Sprintf("%s <%s>", realname, email)
Sprintf(realname, email) == realname \o <<32, 60>> \o email \o <<62>>

\* the identity parse settles on
parseUid(o, env) ==
    IF o.uid = NoString /\ o.load = NoString
       /\ env.EMAIL # NoString /\ env.REALNAME # NoString
    THEN Sprintf(env.REALNAME, env.EMAIL)
    ELSE o.uid

\* a plausible slip: the creation date is taken from the clock without -n
parseAlwaysNow(cmd, env, now) ==
    LET o1 == [cmd EXCEPT !.uid = parseUid(cmd, env)] IN
    IF cmd.help THEN [end |-> "help", o |-> cmd]
    ELSE IF o1.uid = NoString /\ o1.load = NoString THEN [end |-> "fatal", o |-> o1]
    ELSE [end |-> "", o |-> [o1 EXCEPT !.created = now]]

\* func parse() *options
parse(cmd, env, now) ==
    LET o1 == [cmd EXCEPT !.uid = parseUid(cmd, env)] IN
    IF cmd.help THEN [end |-> "help", o |-> cmd]
    ELSE IF o1.uid = NoString /\ o1.load = NoString THEN [end |-> "fatal", o |-> o1]
    ELSE [end |-> "", o |-> IF o1.now THEN [o1 EXCEPT !.created = now] ELSE o1]

(***************************************************************************)
(* kdf and the keys.                                                       *)
(***************************************************************************)
Passphrases == {<<112>>, <<113>>}

\* argon2.IDKey(passphrase, uid, time, memory, threads, 64), as a term
IDKey(pass, salt, time, memory, threads, keyLen) ==
    [pass |-> pass, salt |-> salt, time |-> time, memory |-> memory,
     threads |-> threads, keyLen |-> keyLen]

\* func kdf(passphrase, uid []byte, scale int) []byte
kdf(pass, uid, scale) == IDKey(pass, uid, kdfTime * scale, kdfMemory * scale, 1, 64)

NoSeed == [from |-> IDKey(<<>>, <<>>, 0, 0, 0, 0), lo |-> 0, hi |-> 0]

\* seed[lo:hi]
Slice(seed, lo, hi) == [from |-> seed, lo |-> lo, hi |-> hi]

\* var key SignKey, var subkey EncryptKey: Go's zero value
ZeroKeyValue == [seeded |-> FALSE, seed |-> NoSeed, created |-> 0]

\* key.Seed(seed)
Seed(k, seed) == [k EXCEPT !.seeded = TRUE, !.seed = seed]

\* key.SetCreated(t)
SetCreated(k, t) == [k EXCEPT !.created = t]

\* key.Created()
Created(k) == k.created

\* key.Packet(), subkey.Packet(): the secret-key packet
SecPacket(kind, k) == [kind |-> kind, secret |-> TRUE, seed |-> k.seed, created |-> k.created]

\* key.PubPacket(), subkey.PubPacket(): the public-key packet
PubPacket(kind, k) == [kind |-> kind, secret |-> FALSE, seed |-> k.seed, created |-> k.created]

\* key.KeyID()
KeyID(k) == [keyid |-> PubPacket("key", k)]

\* the Bindable a UserID is
BindableUserID(x) ==
    [SignType |-> SignType(x), Subpackets |-> Subpackets(x),
     SignData |-> [bytes |-> SignData(x), pub |-> PubPacket("none", ZeroKeyValue)]]

\* the Bindable an EncryptKey is
BindableSubkey(k) ==
    [SignType |-> 24, Subpackets |-> << [Type |-> 27, Data |-> <<12>>] >>,
     SignData |-> [bytes |-> <<>>, pub |-> PubPacket("subkey", k)]]

\* key.Bind(target, created)
Bind(k, target, when) ==
    [kind |-> "sig", sigtype |-> target.SignType, signer |-> k.seed, issuer |-> KeyID(k),
     created |-> when, hashed |-> target.Subpackets, over |-> target.SignData]

\* key.Sign(os.Stdin), the input read
Sign(k, data) ==
    [kind |-> "sig", sigtype |-> 0, signer |-> k.seed, issuer |-> KeyID(k),
     created |-> k.created, hashed |-> <<>>, over |-> [bytes |-> data, pub |-> PubPacket("none", ZeroKeyValue)]]

\* userid.Packet() in the output
UserIDPacket(x) == [kind |-> "userid", bytes |-> Packet(x)]

\* Armor(output)
Armor(out) == << [kind |-> "armor", payload |-> out] >>

\* a plausible slip: the secret packets are written under -p
KeygenSecretAlways(o, k, sk, uid) ==
    <<SecPacket("key", k), UserIDPacket(uid), Bind(k, BindableUserID(uid), o.created)>>
    \o (IF o.subkey
        THEN <<SecPacket("subkey", sk), Bind(k, BindableSubkey(sk), o.created)>>
        ELSE <<>>)

\* a plausible slip: the subkey comes before the identity
KeygenSubkeyFirst(o, k, sk, uid) ==
    <<IF o.public THEN PubPacket("key", k) ELSE SecPacket("key", k)>>
    \o (IF o.subkey
        THEN <<IF o.public THEN PubPacket("subkey", sk) ELSE SecPacket("subkey", sk),
               Bind(k, BindableSubkey(sk), o.created)>>
        ELSE <<>>)
    \o <<UserIDPacket(uid), Bind(k, BindableUserID(uid), o.created)>>

\* main, lines 213-231: the buffer filled in key-generation mode
Keygen(o, k, sk, uid) ==
    IF o.public
    THEN <<PubPacket("key", k), UserIDPacket(uid), Bind(k, BindableUserID(uid), o.created)>>
         \o (IF o.subkey
             THEN <<PubPacket("subkey", sk), Bind(k, BindableSubkey(sk), o.created)>>
             ELSE <<>>)
    ELSE <<SecPacket("key", k), UserIDPacket(uid), Bind(k, BindableUserID(uid), o.created)>>
         \o (IF o.subkey
             THEN <<SecPacket("subkey", sk), Bind(k, BindableSubkey(sk), o.created)>>
             ELSE <<>>)

(***************************************************************************)
(* What main reads: passphrase, key file, standard input.                  *)
(***************************************************************************)
\* one terminal.ReadPassword call: an error, or the bytes typed
Typed == {[err |-> TRUE, bytes |-> <<>>]} \cup {[err |-> FALSE, bytes |-> p] : p \in Passphrases}

\* func readPassphrase(repeat int) ([]byte, error); typed[i] is the i-th ReadPassword
readPassphrase(repeat, typed) ==
    LET bad == {i \in 2..(repeat + 1) : typed[i].err \/ typed[i].bytes # typed[1].bytes}
        stop == IF typed[1].err THEN 1
                ELSE IF bad = {} THEN repeat + 1
                ELSE CHOOSE i \in bad : \A j \in bad : i <= j
    IN [err |-> typed[1].err \/ bad # {},
        bytes |-> IF typed[1].err \/ bad # {} THEN <<>> ELSE typed[1].bytes,
        prompts |-> stop]

\* content of the file named by -i; the empty sequence of lines cannot be opened
PassFiles == { <<>>, <<112>>, <<112, 10>>, <<113, 13, 10, 120>>, <<10, 112>> }

\* index of the first '\n', or Len + 1
LineEnd(bytes) ==
    IF \E i \in 1..Len(bytes) : bytes[i] = 10
    THEN CHOOSE i \in 1..Len(bytes) : bytes[i] = 10 /\ \A j \in 1..(i - 1) : bytes[j] # 10
    ELSE Len(bytes) + 1

\* func firstLine(filename string) ([]byte, error), on a file that opens
firstLine(bytes) ==
    LET line == SubSeq(bytes, 1, LineEnd(bytes) - 1) IN
    IF Len(line) > 0 /\ line[Len(line)] = 13 THEN SubSeq(line, 1, Len(line) - 1) ELSE line

\* a key -l can find in a file: one this program wrote for identity "A"
FileKey(pass) == SetCreated(Seed(ZeroKeyValue, Slice(kdf(pass, <<65>>, 1), 0, 32)), 0)

NoFile == [key |-> PubPacket("none", ZeroKeyValue), rest |-> <<>>]

\* content of the file named by -l: the first packet, and the bytes after it
KeyFiles ==
    { [key |-> SecPacket("key", FileKey(<<112>>)), rest |-> Packet([ID |-> <<65>>, EnableMDC |-> FALSE])],
      [key |-> SecPacket("key", FileKey(<<113>>)), rest |-> Packet([ID |-> <<65>>, EnableMDC |-> FALSE])],
      [key |-> PubPacket("key", FileKey(<<112>>)), rest |-> Packet([ID |-> <<65>>, EnableMDC |-> FALSE])],
      [key |-> SecPacket("key", FileKey(<<112>>)), rest |-> <<Header(5), 1, 65>>] }

\* key.Load(f)
LoadKey(k, pkt) ==
    IF pkt.kind = "key" /\ pkt.secret
    THEN [err |-> FALSE, k |-> [seeded |-> TRUE, seed |-> pkt.seed, created |-> pkt.created]]
    ELSE [err |-> TRUE, k |-> k]

\* what standard input holds
Documents == {<<100>>, <<101>>}

(***************************************************************************)
(* main as a step machine.                                                 *)
(***************************************************************************)
\* the creation date the command line asks for: -t, or the clock under -n
Requested(cmd, now) == IF cmd.now THEN now ELSE cmd.created

NoFirst ==
    [valid |-> FALSE, sign |-> FALSE, armor |-> FALSE, public |-> FALSE, subkey |-> FALSE,
     paranoid |-> FALSE, load |-> NoString, uid |-> NoString, requested |-> 0,
     passphrase |-> <<>>, keyfile |-> NoFile, stdin |-> <<>>, stdout |-> <<>>,
     exitcode |-> 0, cause |-> ""]

\* the command lines with the mode flags, difficulty and -l of the first run
RepeatLines ==
    [ sign : {first.sign}, keygen : {TRUE}, armor : {first.armor}, created : TimeArgs,
      fingerprint : BOOLEAN, help : BOOLEAN, input : FileArgs, load : {first.load},
      now : BOOLEAN, paranoid : {first.paranoid}, public : {first.public},
      repeat : 0..MaxRepeat, subkey : {first.subkey}, uid : UidArgs ]

\* the second run is given the mode flags, difficulty, identity, creation date and -l
\* of the first
Repeats(cmd, env, now) ==
    /\ cmd.sign = first.sign /\ cmd.armor = first.armor /\ cmd.public = first.public
    /\ cmd.subkey = first.subkey /\ cmd.paranoid = first.paranoid
    /\ cmd.load = first.load
    /\ parseUid(cmd, env) = first.uid
    /\ Requested(cmd, now) = first.requested

RunInit ==
    /\ pc = "parse"
    /\ options = ZeroOptions
    /\ passphrase = <<>>
    /\ key = ZeroKeyValue
    /\ subkey = ZeroKeyValue
    /\ userid = ZeroUserID
    /\ keyfile = NoFile
    /\ stdin = <<>>
    /\ output = <<>>
    /\ stdout = <<>>
    /\ stderr = <<>>
    /\ exitcode = 0
    /\ cause = ""
    /\ used = {}
    /\ requested = 0

\* a plausible slip: os.Exit(0)
fatalExitsZero(written, step) ==
    /\ stderr' = (stderr \o written) \o <<[kind |-> "fatal", step |-> step]>>
    /\ exitcode' = 0
    /\ cause' = step
    /\ pc' = "exit"

\* func fatal(format string, args ...interface{}); written is what the failing step
\* had put on standard error before
fatal(written, step) ==
    /\ stderr' = (stderr \o written) \o <<[kind |-> "fatal", step |-> step]>>
    /\ exitcode' = 1
    /\ cause' = step
    /\ pc' = "exit"

\* main, line 152: options := parse()
Parse ==
    /\ pc = "parse"
    /\ \E cmd \in (IF run = 1 THEN CommandLines ELSE RepeatLines),
          env \in Environments, now \in Clock :
         LET p == parse(cmd, env, now) IN
         /\ run = 2 => Repeats(cmd, env, now)
         /\ options' = p.o
         /\ requested' = Requested(cmd, now)
         /\ IF p.end = "help"
            THEN /\ stdout' = <<[kind |-> "usage"]>>
                 /\ pc' = "exit"
                 /\ cause' = "help"
                 /\ UNCHANGED <<stderr, exitcode>>
            ELSE IF p.end = "fatal"
            THEN /\ fatal(<<>>, "parse")
                 /\ UNCHANGED stdout
            ELSE /\ pc' = IF p.o.load = NoString THEN "passphrase" ELSE "open"
                 /\ UNCHANGED <<stdout, stderr, exitcode, cause>>
    /\ UNCHANGED <<passphrase, key, subkey, userid, keyfile, stdin, output, used,
                   zeroKey, run, first, uidvars>>

\* main, lines 156-165: the passphrase from the file of -i
ReadPassphraseFile ==
    /\ pc = "passphrase"
    /\ options.input # NoString
    /\ \E opens \in BOOLEAN, bytes \in PassFiles :
         IF opens
         THEN /\ passphrase' = firstLine(bytes)
              /\ pc' = "kdf"
              /\ UNCHANGED <<stderr, exitcode, cause>>
         ELSE /\ fatal(<<>>, "passphrase")
              /\ UNCHANGED passphrase
    /\ UNCHANGED <<options, key, subkey, userid, keyfile, stdin, output, stdout, used,
                   zeroKey, requested, run, first, uidvars>>

Prompts(n) == [i \in 1..n |-> [kind |-> "prompt", step |-> "passphrase"]]

\* main, lines 156-165: the passphrase from the terminal
ReadPassphraseTerminal ==
    /\ pc = "passphrase"
    /\ options.input = NoString
    /\ \E typed \in [1..(options.repeat + 1) -> Typed] :
         LET got == readPassphrase(options.repeat, typed) IN
         IF got.err
         THEN /\ fatal(Prompts(got.prompts), "passphrase")
              /\ UNCHANGED passphrase
         ELSE /\ passphrase' = got.bytes
              /\ stderr' = stderr \o Prompts(got.prompts)
              /\ pc' = "kdf"
              /\ UNCHANGED <<exitcode, cause>>
    /\ UNCHANGED <<options, key, subkey, userid, keyfile, stdin, output, stdout, used,
                   zeroKey, requested, run, first, uidvars>>

\* main, lines 167-180: kdf, key.Seed, key.SetCreated, userid, subkey
Derive ==
    /\ pc = "kdf"
    /\ LET scale == IF options.paranoid THEN 2 ELSE 1
           seed == kdf(passphrase, options.uid, scale)
       IN /\ key' = SetCreated(Seed(key, Slice(seed, 0, 32)), options.created)
          /\ userid' = [ID |-> options.uid, EnableMDC |-> FALSE]
          /\ subkey' = IF options.subkey
                       THEN SetCreated(Seed(subkey, Slice(seed, 32, 64)), options.created)
                       ELSE subkey
    /\ pc' = "fingerprint"
    /\ UNCHANGED <<options, passphrase, keyfile, stdin, output, stdout, stderr, exitcode,
                   cause, used, zeroKey, requested, run, first, uidvars>>

\* main, lines 184-188: os.Open(options.load)
OpenKeyFile ==
    /\ pc = "open"
    /\ \E opens \in BOOLEAN, file \in KeyFiles :
         IF opens
         THEN /\ keyfile' = file
              /\ pc' = "loadkey"
              /\ UNCHANGED <<stderr, exitcode, cause>>
         ELSE /\ fatal(<<>>, "open")
              /\ UNCHANGED keyfile
    /\ UNCHANGED <<options, passphrase, key, subkey, userid, stdin, output, stdout, used,
                   zeroKey, requested, run, first, uidvars>>

\* main, lines 189-191: key.Load(f)
LoadKeyFile ==
    /\ pc = "loadkey"
    /\ LET l == LoadKey(key, keyfile.key) IN
       IF l.err
       THEN /\ fatal(<<>>, "loadkey")
            /\ UNCHANGED key
       ELSE /\ key' = l.k
            /\ pc' = "loaduid"
            /\ UNCHANGED <<stderr, exitcode, cause>>
    /\ UNCHANGED <<options, passphrase, subkey, userid, keyfile, stdin, output, stdout,
                   used, zeroKey, requested, run, first, uidvars>>

\* main, lines 192-195: userid.Load(f), options.created = key.Created()
LoadUserID ==
    /\ pc = "loaduid"
    /\ LET l == Load(userid, keyfile.rest) IN
       IF l.err
       THEN /\ fatal(<<>>, "loaduid")
            /\ UNCHANGED <<userid, options>>
       ELSE /\ userid' = l.u
            /\ options' = [options EXCEPT !.created = Created(key)]
            /\ pc' = "fingerprint"
            /\ UNCHANGED <<stderr, exitcode, cause>>
    /\ UNCHANGED <<passphrase, key, subkey, keyfile, stdin, output, stdout, used,
                   zeroKey, requested, run, first, uidvars>>

\* main, lines 198-200: the fingerprint on standard error
Fingerprint ==
    /\ pc = "fingerprint"
    /\ IF options.fingerprint
       THEN /\ stderr' = Append(stderr, [kind |-> "keyid", step |-> "fingerprint"])
            /\ used' = used \cup {"key"}
       ELSE UNCHANGED <<stderr, used>>
    /\ pc' = "build"
    /\ UNCHANGED <<options, passphrase, key, subkey, userid, keyfile, stdin, output,
                   stdout, exitcode, cause, zeroKey, requested, run, first, uidvars>>

\* main, lines 205-210: output, err = key.Sign(os.Stdin)
BuildSignature ==
    /\ pc = "build"
    /\ options.sign
    /\ used' = used \cup {"key"}
    /\ \E reads \in BOOLEAN, data \in Documents :
         IF reads
         THEN /\ stdin' = data
              /\ output' = <<Sign(key, data)>>
              /\ pc' = "armor"
              /\ UNCHANGED <<stderr, exitcode, cause>>
         ELSE /\ fatal(<<>>, "sign")
              /\ UNCHANGED <<stdin, output>>
    /\ UNCHANGED <<options, passphrase, key, subkey, userid, keyfile, stdout, zeroKey,
                   requested, run, first, uidvars>>

\* main, lines 212-232: the key, the identity and the bindings
BuildKey ==
    /\ pc = "build"
    /\ ~options.sign
    /\ used' = used \cup (IF options.subkey THEN {"key", "subkey"} ELSE {"key"})
    /\ IF options.subkey /\ ~subkey.seeded
       THEN /\ zeroKey' \in (IF zeroKey = "unknown" THEN {"panics", "packet"} ELSE {zeroKey})
            /\ IF zeroKey' = "panics"
               THEN /\ stderr' = Append(stderr, [kind |-> "panic", step |-> "build"])
                    /\ exitcode' = 2
                    /\ cause' = "panic"
                    /\ pc' = "exit"
                    /\ UNCHANGED output
               ELSE /\ output' = Keygen(options, key, subkey, userid)
                    /\ pc' = "armor"
                    /\ UNCHANGED <<stderr, exitcode, cause>>
       ELSE /\ output' = Keygen(options, key, subkey, userid)
            /\ pc' = "armor"
            /\ UNCHANGED <<stderr, exitcode, cause, zeroKey>>
    /\ UNCHANGED <<options, passphrase, key, subkey, userid, keyfile, stdin, stdout,
                   requested, run, first, uidvars>>

\* main, lines 234-236: output = Armor(output)
ArmorOutput ==
    /\ pc = "armor"
    /\ output' = IF options.armor THEN Armor(output) ELSE output
    /\ pc' = "write"
    /\ UNCHANGED <<options, passphrase, key, subkey, userid, keyfile, stdin, stdout,
                   stderr, exitcode, cause, used, zeroKey, requested, run, first, uidvars>>

\* main, lines 238-240: os.Stdout.Write(output) wrote the first n packets
Write ==
    /\ pc = "write"
    /\ \E n \in 0..Len(output) :
         /\ stdout' = SubSeq(output, 1, n)
         /\ IF n < Len(output)
            THEN fatal(<<>>, "write")
            ELSE /\ pc' = "exit"
                 /\ cause' = "done"
                 /\ UNCHANGED <<stderr, exitcode>>
    /\ UNCHANGED <<options, passphrase, key, subkey, userid, keyfile, stdin, output,
                   used, zeroKey, requested, run, first, uidvars>>

\* the program is run a second time, after a run that completed
RunAgain ==
    /\ pc = "exit"
    /\ cause = "done"
    /\ run = 1
    /\ run' = 2
    /\ first' = [valid |-> TRUE, sign |-> options.sign, armor |-> options.armor,
                 public |-> options.public, subkey |-> options.subkey,
                 paranoid |-> options.paranoid, load |-> options.load,
                 uid |-> options.uid, requested |-> requested,
                 passphrase |-> passphrase, keyfile |-> keyfile, stdin |-> stdin,
                 stdout |-> stdout, exitcode |-> exitcode, cause |-> cause]
    /\ pc' = "parse"
    /\ options' = ZeroOptions
    /\ passphrase' = <<>>
    /\ key' = ZeroKeyValue
    /\ subkey' = ZeroKeyValue
    /\ userid' = ZeroUserID
    /\ keyfile' = NoFile
    /\ stdin' = <<>>
    /\ output' = <<>>
    /\ stdout' = <<>>
    /\ stderr' = <<>>
    /\ exitcode' = 0
    /\ cause' = ""
    /\ used' = {}
    /\ requested' = 0
    /\ UNCHANGED <<zeroKey, uidvars>>

(***************************************************************************)
(* Streams handed to Load: empty, cut short, the header of a Secret-Key     *)
(* packet (tag 5), a header without the 0xc0 bits, bytes after the packet. *)
(***************************************************************************)
BadStreams ==
    { <<>>,
      <<Header(TagUserID)>>,
      <<Header(TagUserID), 2, 65>>,
      <<Header(5), 1, 65>>,
      <<TagUserID, 1, 65>>,
      <<Header(TagUserID), 1, 65, 66>> }

NoRes == [op |-> "none", ret |-> <<>>, err |-> FALSE, stream |-> <<>>, before |-> ZeroUserID]

UIDInit ==
    /\ u \in UserIDs
    /\ r \in Receivers
    /\ wire = <<>>
    /\ res = NoRes
    /\ RunInit
    /\ zeroKey = "unknown"
    /\ run = 1
    /\ first = NoFirst

DoPacket ==
    /\ wire' = Packet(u)
    /\ res' = [NoRes EXCEPT !.op = "Packet", !.ret = Packet(u), !.before = u]
    /\ UNCHANGED <<u, r, mainvars>>

DoLoad ==
    \E s \in BadStreams \cup {wire} :
        LET l == Load(r, s) IN
        /\ r' = l.u
        /\ res' = [NoRes EXCEPT !.op = "Load", !.err = l.err, !.stream = s, !.before = r]
        /\ UNCHANGED <<u, wire, mainvars>>

DoSignType ==
    /\ res' = [NoRes EXCEPT !.op = "SignType", !.ret = <<SignType(u)>>, !.before = u]
    /\ UNCHANGED <<u, r, wire, mainvars>>

DoSubpackets ==
    /\ res' = [NoRes EXCEPT !.op = "Subpackets", !.ret = Subpackets(u), !.before = u]
    /\ UNCHANGED <<u, r, wire, mainvars>>

DoSignData ==
    /\ res' = [NoRes EXCEPT !.op = "SignData", !.ret = SignData(u), !.before = u]
    /\ UNCHANGED <<u, r, wire, mainvars>>

UIDNext ==
    \/ DoPacket
    \/ DoLoad
    \/ DoSignType
    \/ DoSubpackets
    \/ DoSignData

UIDSpec == UIDInit /\ [][UIDNext]_vars

(***************************************************************************)
(* Runs of main.                                                           *)
(***************************************************************************)
Init ==
    /\ RunInit
    /\ zeroKey = "unknown"
    /\ run = 1
    /\ first = NoFirst
    /\ u = ZeroUserID
    /\ r = ZeroUserID
    /\ wire = <<>>
    /\ res = NoRes

Next ==
    \/ Parse
    \/ ReadPassphraseFile
    \/ ReadPassphraseTerminal
    \/ Derive
    \/ OpenKeyFile
    \/ LoadKeyFile
    \/ LoadUserID
    \/ Fingerprint
    \/ BuildSignature
    \/ BuildKey
    \/ ArmorOutput
    \/ Write

Spec == Init /\ [][Next]_vars

\* two runs of main, one after the other
NextTwo ==
    \/ Parse
    \/ ReadPassphraseFile
    \/ ReadPassphraseTerminal
    \/ Derive
    \/ OpenKeyFile
    \/ LoadKeyFile
    \/ LoadUserID
    \/ Fingerprint
    \/ BuildSignature
    \/ BuildKey
    \/ ArmorOutput
    \/ Write
    \/ RunAgain

TwoRuns == Init /\ [][NextTwo]_vars

(***************************************************************************)
(* Properties of UserID, checked under UIDSpec.                            *)
(***************************************************************************)
\* n as a 4-byte big-endian integer
BigEndian32(n) ==
    << (n \div 16777216) % 256, (n \div 65536) % 256, (n \div 256) % 256, n % 256 >>

\* C2: UserID.Packet succeeds with length byte 255 on a 255-byte identity, fails with an
\* encoding error on 256 bytes or more, and never returns a packet whose length byte
\* differs from the number of identity bytes after it.
C2_PacketLengthBoundary ==
    res.op = "Packet" =>
        LET n == Len(res.before.ID) IN
        /\ n = ByteRange - 1 => ~res.err /\ res.ret[2] = ByteRange - 1
        /\ n >= ByteRange => res.err
        /\ ~res.err => res.ret[2] = Len(res.ret) - 2

\* the bytes Load was given are those u.Packet() returned
RoundTrip == res.op = "Load" /\ wire # <<>> /\ res.stream = wire

\* C7 as claimed: loading the bytes of U.Packet() into a UserID yields a UserID equal
\* to U, identity bytes and EnableMDC.
C7_RoundTripEqual == RoundTrip => ~res.err /\ r = u

\* C7 as amended: loading the bytes of U.Packet() succeeds, yields the identity bytes
\* the length byte covers (all of them up to 255 bytes, the first len mod 256 beyond)
\* and leaves EnableMDC as the receiver had it.
C7_RoundTripIdentity ==
    RoundTrip =>
        /\ ~res.err
        /\ r.ID = SubSeq(u.ID, 1, Len(u.ID) % 256)
        /\ Len(u.ID) <= 255 => r.ID = u.ID
        /\ r.EnableMDC = res.before.EnableMDC

C7_Witness ==
    /\ RoundTrip
    /\ Len(u.ID) = 255
    /\ r.ID = u.ID
    /\ u.EnableMDC
    /\ ~r.EnableMDC

\* C8: when the packet cannot be read or its header byte is not 0xC0|13, Load returns
\* an error and leaves the receiver's ID and EnableMDC as they were.
C8_LoadFailureKeepsReceiver ==
    res.op = "Load" =>
        LET p == readPacket(res.stream) IN
        (p.err \/ p.packet[1] # 205) => res.err /\ r = res.before

C8_Witness ==
    /\ res.op = "Load"
    /\ res.stream = <<197, 1, 65>>
    /\ res.err
    /\ r.ID = <<66>>
    /\ r.EnableMDC

\* C9: SignData is 0xB4, the identity's length as a 4-byte big-endian integer, then the
\* identity bytes.
C9_SignDataLength ==
    res.op = "SignData" =>
        res.ret = (<<180>> \o BigEndian32(Len(res.before.ID))) \o res.before.ID

\* C10: Subpackets returns the key-flags subpacket (27, 0x03) first, the features
\* subpacket (30, 0x01) after it exactly when EnableMDC is set, nothing else, and
\* leaves the UserID as it was.
C10_Subpackets ==
    res.op = "Subpackets" =>
        /\ res.ret[1] = [Type |-> 27, Data |-> <<3>>]
        /\ res.before.EnableMDC =>
               res.ret = << [Type |-> 27, Data |-> <<3>>], [Type |-> 30, Data |-> <<1>>] >>
        /\ ~res.before.EnableMDC => res.ret = << [Type |-> 27, Data |-> <<3>>] >>
        /\ u = res.before

C10_Witness ==
    /\ res.op = "Subpackets"
    /\ u.EnableMDC
    /\ Len(res.ret) = 2

(***************************************************************************)
(* Properties of main, checked under Spec and TwoRuns.                     *)
(***************************************************************************)
Ended == pc = "exit"

Completed == Ended /\ cause = "done"

Failed == Ended /\ cause \notin {"done", "help"}

\* the last thing on standard error is the report of the error
Reported ==
    /\ stderr # <<>>
    /\ stderr[Len(stderr)].kind \in {"fatal", "panic"}

\* the packets in a stream written under options.armor
Unarmored(stream) ==
    IF stream # <<>> /\ stream[1].kind = "armor" THEN stream[1].payload ELSE stream

IsPrefix(a, b) == Len(a) <= Len(b) /\ a = SubSeq(b, 1, Len(a))

\* the second run ended like the first, on the inputs C1 lists
SameGiven ==
    /\ run = 2
    /\ Completed
    /\ first.cause = "done"
    /\ options.sign = first.sign
    /\ options.armor = first.armor
    /\ options.public = first.public
    /\ options.subkey = first.subkey
    /\ options.paranoid = first.paranoid
    /\ options.uid = first.uid
    /\ requested = first.requested
    /\ passphrase = first.passphrase

\* C1 as claimed: two runs given the same passphrase, identity, difficulty, creation
\* timestamp and mode flags write the same bytes to standard output.
C1_SameOutput == SameGiven => stdout = first.stdout

\* C1 as amended: two runs that complete, given the same passphrase, identity,
\* difficulty, creation timestamp, mode flags and -l, and in addition the same key file
\* (under -l) and the same standard input (under -S), write the same bytes.
C1_SameOutputSameFiles ==
    (SameGiven /\ keyfile = first.keyfile /\ stdin = first.stdin) => stdout = first.stdout

C1_Witness ==
    /\ SameGiven
    /\ keyfile = first.keyfile
    /\ stdin = first.stdin
    /\ options.load = NoString
    /\ options.now
    /\ options.fingerprint
    /\ options.input # NoString
    /\ ~options.sign
    /\ stdout = first.stdout
    /\ Len(stdout) = 5

\* C3 as claimed: a failing run reports the error, exits non-zero and has written
\* nothing to standard output.
C3_NothingWritten == Failed => exitcode # 0 /\ Reported /\ stdout = <<>>

\* C3 as amended: a failing run reports the error and exits non-zero; it has written
\* nothing to standard output unless the failure is that of the final write, which
\* leaves a proper prefix of the output there.
C3_NothingWrittenBeforeWrite ==
    Failed =>
        /\ exitcode # 0
        /\ Reported
        /\ cause # "write" => stdout = <<>>
        /\ cause = "write" => IsPrefix(stdout, output) /\ Len(stdout) < Len(output)

C3_Witness ==
    /\ Failed
    /\ cause = "write"
    /\ stdout # <<>>
    /\ exitcode = 1

\* C4: a completed run has written, armored as a whole under -a: in sign mode one
\* detached signature over standard input; otherwise the primary key packet (public
\* under -p), the UserID packet, the binding of the UserID and, only under -s, the
\* subkey packet (public under -p) and its binding, in that order and nothing else.
C4_OutputComposition ==
    Completed =>
        LET stream == Unarmored(stdout) IN
        /\ stdout = IF options.armor THEN Armor(stream) ELSE stream
        /\ options.sign =>
              /\ Len(stream) = 1
              /\ stream[1] = Sign(key, stdin)
        /\ ~options.sign =>
              /\ Len(stream) = IF options.subkey THEN 5 ELSE 3
              /\ stream[1].kind = "key"
              /\ stream[1] = IF options.public THEN PubPacket("key", key)
                                               ELSE SecPacket("key", key)
              /\ stream[2] = [kind |-> "userid", bytes |-> Packet(userid)]
              /\ stream[3] = Bind(key, BindableUserID(userid), options.created)
              /\ options.subkey =>
                    /\ stream[4].kind = "subkey"
                    /\ stream[4] = IF options.public THEN PubPacket("subkey", subkey)
                                                     ELSE SecPacket("subkey", subkey)
                    /\ stream[5] = Bind(key, BindableSubkey(subkey), options.created)

C4_Witness ==
    /\ Completed
    /\ ~options.sign
    /\ options.subkey
    /\ ~options.public
    /\ ~options.armor
    /\ options.load = NoString
    /\ Len(stdout) = 5

\* C5: every key whose packet, KeyID, signature or binding has been computed was
\* initialized before, by Seed or by a successful Load.
C5_KeysInitialized ==
    /\ "key" \in used => key.seeded
    /\ "subkey" \in used => subkey.seeded

\* no secret-key packet among the packets
NoSecret(stream) ==
    \A i \in 1..Len(stream) :
        stream[i].kind \in {"key", "subkey"} => ~stream[i].secret

\* C6: under -p in key-generation mode, neither key.Packet nor subkey.Packet
\* contributes to the output: buffer and standard output hold public packets only.
C6_PublicOnly ==
    (options.public /\ ~options.sign) =>
        /\ NoSecret(Unarmored(output))
        /\ NoSecret(Unarmored(stdout))

C6_Witness ==
    /\ Completed
    /\ options.public
    /\ ~options.sign
    /\ options.subkey
    /\ options.armor
    /\ Len(Unarmored(stdout)) = 5

====
